---- MODULE Spec2Model ----
(***************************************************************************)
(* A model of src/main.rs of temperature_converter: the parser             *)
(* Temperature::from_str, the converter Temperature::convert and the       *)
(* driver main.                                                            *)
(*                                                                         *)
(* Strings are sequences of characters; a character is a one-element       *)
(* string for ASCII and a "U+XXXX" name for the non-ASCII characters the   *)
(* model knows.  Each character has its UTF-8 width, so that str::len and  *)
(* str::split_at work on bytes as they do in Rust.                         *)
(*                                                                         *)
(* An f64 is modelled exactly: a finite value is a sign and a magnitude,   *)
(* the magnitude an unbounded natural number counting units of             *)
(* 2^-FracBits, kept as a little-endian sequence of 15-bit limbs.  Every   *)
(* finite binary64 value is a whole number of such units.  Each arithmetic *)
(* operation computes the exact result and rounds it to nearest, ties to   *)
(* even, at 53 significant bits (fewer in the subnormal range), as IEEE    *)
(* 754 does.  The one abstraction: -0.0 is identified with +0.0, which     *)
(* f64's == does too.                                                      *)
(***************************************************************************)
EXTENDS Integers, Sequences, FiniteSets, TLC

(***************************************************************************)
(* Natural numbers of any size                                             *)
(***************************************************************************)
RECURSIVE BitLen(_)
BitLen(n) == IF n = 0 THEN 0 ELSE 1 + BitLen(n \div 2)

LimbBase == 2^15
LimbBits == BitLen(LimbBase) - 1

Limb(a, i) == IF i <= Len(a) THEN a[i] ELSE 0

RECURSIVE BNorm(_)
BNorm(a) ==
  IF a = <<>> THEN a
  ELSE IF a[Len(a)] = 0 THEN BNorm(SubSeq(a, 1, Len(a) - 1)) ELSE a

RECURSIVE BAddFrom(_, _, _, _)
BAddFrom(a, b, i, c) ==
  IF i > Len(a) /\ i > Len(b) THEN (IF c = 0 THEN <<>> ELSE <<c>>)
  ELSE LET s == Limb(a, i) + Limb(b, i) + c
       IN  <<s % LimbBase>> \o BAddFrom(a, b, i + 1, s \div LimbBase)

BAdd(a, b) == BAddFrom(a, b, 1, 0)

RECURSIVE BSubFrom(_, _, _, _)
BSubFrom(a, b, i, c) ==
  IF i > Len(a) THEN <<>>
  ELSE LET s == a[i] - Limb(b, i) - c
       IN  IF s < 0 THEN <<s + LimbBase>> \o BSubFrom(a, b, i + 1, 1)
           ELSE <<s>> \o BSubFrom(a, b, i + 1, 0)

\* a - b, for a >= b
BSub(a, b) == BNorm(BSubFrom(a, b, 1, 0))

RECURSIVE BCmpFrom(_, _, _)
BCmpFrom(a, b, i) ==
  IF i = 0 THEN 0
  ELSE IF a[i] < b[i] THEN -1
  ELSE IF a[i] > b[i] THEN 1
  ELSE BCmpFrom(a, b, i - 1)

\* -1, 0, 1 as a < b, a = b, a > b
BCmp(a, b) ==
  IF Len(a) < Len(b) THEN -1
  ELSE IF Len(a) > Len(b) THEN 1
  ELSE BCmpFrom(a, b, Len(a))

RECURSIVE BMulFrom(_, _, _, _)
BMulFrom(a, k, i, c) ==
  IF i > Len(a) THEN (IF c = 0 THEN <<>> ELSE <<c>>)
  ELSE LET s == a[i] * k + c
       IN  <<s % LimbBase>> \o BMulFrom(a, k, i + 1, s \div LimbBase)

\* a * k, for 0 <= k < LimbBase
BMulSmall(a, k) == BNorm(BMulFrom(a, k, 1, 0))

RECURSIVE BDivFrom(_, _, _, _)
BDivFrom(a, d, i, r) ==
  IF i = 0 THEN [q |-> <<>>, r |-> r]
  ELSE LET s == r * LimbBase + a[i]
       IN  IF s < d
           THEN LET rest == BDivFrom(a, d, i - 1, s)
                IN  [q |-> Append(rest.q, 0), r |-> rest.r]
           ELSE LET rest == BDivFrom(a, d, i - 1, s % d)
                IN  [q |-> Append(rest.q, s \div d), r |-> rest.r]

NormQuotient(x) == [q |-> BNorm(x.q), r |-> x.r]

\* quotient and remainder of a by d, for 0 < d <= LimbBase
BDivSmall(a, d) == NormQuotient(BDivFrom(a, d, Len(a), 0))

BBitLen(a) == IF a = <<>> THEN 0 ELSE (Len(a) - 1) * LimbBits + BitLen(a[Len(a)])

Zeros(n) == [i \in 1..n |-> 0]

\* a * 2^n
BShl(a, n) ==
  IF a = <<>> THEN a
  ELSE Zeros(n \div LimbBits) \o BMulSmall(a, 2^(n % LimbBits))

ShrResult(low, d) ==
  [q |-> d.q, sticky |-> d.r # 0 \/ \E i \in 1..Len(low) : low[i] # 0]

ShrLimbs(a, k, bits) ==
  IF k < Len(a)
  THEN ShrResult(SubSeq(a, 1, k), BDivSmall(SubSeq(a, k + 1, Len(a)), 2^bits))
  ELSE [q |-> <<>>, sticky |-> a # <<>>]

\* floor(a / 2^n), and whether a nonzero bit was dropped
BShr(a, n) == ShrLimbs(a, n \div LimbBits, n % LimbBits)

BOdd(a) == a # <<>> /\ a[1] % 2 = 1

\* a small natural number as a big one
RECURSIVE BNat(_)
BNat(n) == IF n = 0 THEN <<>> ELSE <<n % LimbBase>> \o BNat(n \div LimbBase)

(***************************************************************************)
(* f64: IEEE 754 binary64                                                  *)
(***************************************************************************)
\* A finite value is (-1)^neg * m * 2^e with m odd (or m zero and e = 0), so
\* that equal values are equal records.
NaN == [k |-> "nan", neg |-> FALSE, m |-> <<>>, e |-> 0]
Inf(neg) == [k |-> "inf", neg |-> neg, m |-> <<>>, e |-> 0]
Zero == [k |-> "num", neg |-> FALSE, m |-> <<>>, e |-> 0]

RECURSIVE TrailingZeroBits(_)
TrailingZeroBits(n) == IF n % 2 = 1 THEN 0 ELSE 1 + TrailingZeroBits(n \div 2)

RECURSIVE TrailingZeroLimbs(_, _)
TrailingZeroLimbs(a, i) == IF a[i] # 0 THEN 0 ELSE 1 + TrailingZeroLimbs(a, i + 1)

NumShifted(neg, m, e, zl) ==
  [k |-> "num", neg |-> neg,
   m |-> BShr(SubSeq(m, zl + 1, Len(m)), TrailingZeroBits(m[zl + 1])).q,
   e |-> e + zl * LimbBits + TrailingZeroBits(m[zl + 1])]

\* The finite value (-1)^neg * m * 2^e, m of at most 53 bits
Num(neg, m, e) ==
  IF m = <<>> THEN Zero ELSE NumShifted(neg, m, e, TrailingZeroLimbs(m, 1))

\* q (the exact value's bits above the rounding place) rounded up or not,
\* then 2^1024 or more made infinite
RoundUp(neg, q, up, e) ==
  IF BBitLen(q) + e > 1024 THEN Inf(neg)
  ELSE IF up /\ BBitLen(BAdd(q, <<1>>)) + e > 1024 THEN Inf(neg)
  ELSE Num(neg, IF up THEN BAdd(q, <<1>>) ELSE q, e)

\* s1 holds the bits from the guard bit up, and whether a bit below it is set
RoundGuard(neg, s1, q, e) ==
  RoundUp(neg, q, BOdd(s1.q) /\ (s1.sticky \/ BOdd(q)), e)

RoundShifted(neg, s1, e) == RoundGuard(neg, s1, BShr(s1.q, 1).q, e)

\* Round m * 2^e at p binary places above m's last
RoundAt(neg, m, e, p) ==
  IF p <= 0 THEN Num(neg, m, e) ELSE RoundShifted(neg, BShr(m, p - 1), e + p)

RoundPlace(L, e) == IF L - 53 > -1074 - e THEN L - 53 ELSE -1074 - e

RoundJammed(neg, m, e) == RoundAt(neg, m, e, RoundPlace(BBitLen(m), e))

\* The exact value m * 2^e (plus less than one unit of m's last place, if
\* sticky, and then m has 55 bits or more) rounded to nearest, ties to even,
\* at 53 bits or at 2^-1074, whichever is coarser; 2^1024 or more is
\* infinite.  A sticky fraction becomes one more bit below m.
RoundF64(neg, m, e, sticky) ==
  IF sticky THEN RoundJammed(neg, BAdd(BShl(m, 1), <<1>>), e - 1)
  ELSE RoundJammed(neg, m, e)

\* a * 2^e + b * 2^e or a * 2^e - b * 2^e, as the signs say
AddMagnitudes(xneg, yneg, a, b, e, cmp) ==
  RoundF64(IF xneg = yneg \/ cmp >= 0 THEN xneg ELSE yneg,
           IF xneg = yneg THEN BAdd(a, b)
           ELSE IF cmp >= 0 THEN BSub(a, b) ELSE BSub(b, a),
           e, FALSE)

AddShifted(xneg, yneg, a, b, e) == AddMagnitudes(xneg, yneg, a, b, e, BCmp(a, b))

\* x + y for finite nonzero x and y with x.e >= y.e.  When y lies more than
\* 110 binary places below x it is less than a quarter of x's last place,
\* and only its sign can matter.
AddAligned(x, y) ==
  IF x.e - y.e > 110
  THEN AddShifted(x.neg, y.neg, BShl(x.m, 120), <<1>>, x.e - 120)
  ELSE AddShifted(x.neg, y.neg, BShl(x.m, x.e - y.e), y.m, y.e)

\* x + y
FAdd(x, y) ==
  IF x.k = "nan" \/ y.k = "nan" THEN NaN
  ELSE IF x.k = "inf" THEN (IF y.k = "inf" /\ y.neg # x.neg THEN NaN ELSE x)
  ELSE IF y.k = "inf" THEN y
  ELSE IF y.m = <<>> THEN x
  ELSE IF x.m = <<>> THEN y
  ELSE AddAligned(IF x.e >= y.e THEN x ELSE y, IF x.e >= y.e THEN y ELSE x)

\* -x
FNeg(x) ==
  IF x.k = "nan" \/ (x.k = "num" /\ x.m = <<>>) THEN x ELSE [x EXCEPT !.neg = ~x.neg]

\* x - y
FSub(x, y) == FAdd(x, FNeg(y))

\* x * n, for the f64 n.0 with 0 < n < LimbBase
FMulSmall(x, n) ==
  IF x.k # "num" THEN x ELSE RoundF64(x.neg, BMulSmall(x.m, n), x.e, FALSE)

\* x / n, for the f64 n.0 with 0 < n < LimbBase
RoundQuotient(neg, d, e) == RoundF64(neg, d.q, e, d.r # 0)

FDivSmall(x, n) ==
  IF x.k # "num" THEN x
  ELSE RoundQuotient(x.neg, BDivSmall(BShl(x.m, 75), n), x.e - 75)

\* The f64 of a small integer
FInt(n) == IF n < 0 THEN Num(TRUE, BNat(-n), 0) ELSE Num(FALSE, BNat(n), 0)

\* x == y of f64: NaN equals nothing
FEq(x, y) == x.k # "nan" /\ y.k # "nan" /\ x = y

\* x < y and x <= y of f64
FLess(x, y) ==
  /\ x.k # "nan" /\ y.k # "nan" /\ x # y
  /\ LET d == FSub(y, x) IN d.k # "nan" /\ ~d.neg
FLessEq(x, y) == FEq(x, y) \/ FLess(x, y)

\* |x|
FAbs(x) == [x EXCEPT !.neg = FALSE]

\* a * 10^n, four powers at a time
RECURSIVE BMulPow10(_, _)
BMulPow10(a, n) ==
  IF n = 0 THEN a
  ELSE LET s == IF n >= 4 THEN 4 ELSE 1
           b == BMulSmall(a, 10^s)
       IN  IF b = <<>> THEN b ELSE BMulPow10(b, n - s)

\* floor(a / 10^n), and whether the division left a remainder
RECURSIVE BDivPow10(_, _, _)
BDivPow10(a, n, sticky) ==
  IF n = 0 THEN [q |-> a, sticky |-> sticky]
  ELSE LET s == IF n >= 4 THEN 4 ELSE 1
           d == BDivSmall(a, 10^s)
       IN  IF d.r = 0 THEN BDivPow10(d.q, n - s, sticky)
           ELSE BDivPow10(d.q, n - s, TRUE)

RoundDivided(neg, d, e) == RoundF64(neg, d.q, e, d.sticky)

\* The f64 nearest to (-1)^neg * digits * 10^e10, digits a natural number
\* written with ndigits decimal digits: what dec2flt returns for a decimal
\* literal.  A negative power of ten 10^-n divides digits * 2^(75 + 4n), for
\* a quotient of 64 bits or more (10^n < 2^(4n)).
DecToF64(neg, digits, ndigits, e10) ==
  IF digits = <<>> THEN Zero
  ELSE IF e10 > 310 THEN Inf(neg)
  ELSE IF e10 + ndigits < -330 THEN Zero
  ELSE IF e10 >= 0 THEN RoundF64(neg, BMulPow10(digits, e10), 0, FALSE)
  ELSE RoundDivided(neg, BDivPow10(BShl(digits, 75 - 4 * e10), -e10, FALSE),
                    4 * e10 - 75)

(***************************************************************************)
(* Characters and strings                                                  *)
(***************************************************************************)
LowerLetters == <<"a","b","c","d","e","f","g","h","i","j","k","l","m",
                  "n","o","p","q","r","s","t","u","v","w","x","y","z">>
UpperLetters == <<"A","B","C","D","E","F","G","H","I","J","K","L","M",
                  "N","O","P","Q","R","S","T","U","V","W","X","Y","Z">>
Digits == <<"0","1","2","3","4","5","6","7","8","9">>

IndexOf(seq, c) == IF \E i \in 1..Len(seq) : seq[i] = c
                   THEN CHOOSE i \in 1..Len(seq) : seq[i] = c
                   ELSE 0

\* The non-ASCII characters: U+00E9 and U+00C9 (e acute, small and capital),
\* U+0131 (dotless small i, whose capital is the ASCII I), U+212A (the Kelvin
\* sign, a capital letter whose small letter is the ASCII k), U+20AC (the euro
\* sign) and U+3000 (the ideographic space).
Utf8Len(c) ==
  CASE c \in {"U+00E9", "U+00C9", "U+0131"} -> 2
    [] c \in {"U+212A", "U+20AC", "U+3000"} -> 3
    [] OTHER -> 1

\* char::is_whitespace
IsWhitespace(c) == c \in {" ", "U+3000"}

\* char::to_uppercase
CharToUpper(c) ==
  CASE IndexOf(LowerLetters, c) # 0 -> UpperLetters[IndexOf(LowerLetters, c)]
    [] c = "U+00E9" -> "U+00C9"
    [] c = "U+0131" -> "I"
    [] OTHER -> c

\* str::len: the length in bytes
RECURSIVE StrLen(_)
StrLen(s) == IF s = <<>> THEN 0 ELSE Utf8Len(Head(s)) + StrLen(Tail(s))

\* str::to_uppercase
ToUppercase(s) == [i \in 1..Len(s) |-> CharToUpper(s[i])]

\* str::trim
RECURSIVE TrimStart(_)
TrimStart(s) ==
  IF s # <<>> /\ IsWhitespace(Head(s)) THEN TrimStart(Tail(s)) ELSE s

RECURSIVE TrimEnd(_)
TrimEnd(s) ==
  IF s # <<>> /\ IsWhitespace(s[Len(s)]) THEN TrimEnd(SubSeq(s, 1, Len(s) - 1)) ELSE s

Trim(s) == TrimEnd(TrimStart(s))

\* str::is_char_boundary: mid is the start of a character, or the end of s
IsCharBoundary(s, mid) == \E n \in 0..Len(s) : StrLen(SubSeq(s, 1, n)) = mid

\* str::split_at: the two halves of s at byte mid; it panics when mid is
\* inside a character or past the end.
SplitAt(s, mid) ==
  IF IsCharBoundary(s, mid)
  THEN LET n == CHOOSE n \in 0..Len(s) : StrLen(SubSeq(s, 1, n)) = mid
       IN  [panic |-> FALSE, left |-> SubSeq(s, 1, n), right |-> SubSeq(s, n + 1, Len(s))]
  ELSE [panic |-> TRUE, left |-> <<>>, right |-> <<>>]

(***************************************************************************)
(* f64::from_str                                                           *)
(***************************************************************************)
IsDigit(c) == IndexOf(Digits, c) # 0
DigitVal(c) == IndexOf(Digits, c) - 1

\* The first index from i on that holds no digit
RECURSIVE SkipDigits(_, _)
SkipDigits(s, i) ==
  IF i <= Len(s) /\ IsDigit(s[i]) THEN SkipDigits(s, i + 1) ELSE i

\* The decimal digits d as a natural number
RECURSIVE DigitsBig(_)
DigitsBig(d) ==
  IF d = <<>> THEN <<>>
  ELSE BAdd(BMulSmall(DigitsBig(SubSeq(d, 1, Len(d) - 1)), 10), BNat(DigitVal(d[Len(d)])))

\* The digits s[i..j-1] as an exponent, saturated at 10000: past it every
\* literal is already infinite or zero.
RECURSIVE DigitsSmall(_, _, _, _)
DigitsSmall(s, i, j, acc) ==
  IF i >= j THEN acc
  ELSE LET n == acc * 10 + DigitVal(s[i])
       IN  DigitsSmall(s, i + 1, j, IF n > 10000 THEN 10000 ELSE n)

ParseOk(v) == [ok |-> TRUE, value |-> v]
ParseErr == [ok |-> FALSE, value |-> Zero]

\* "inf", "infinity" and "nan" in any ASCII case
ParseInfNan(neg, s) ==
  LET u == [i \in 1..Len(s) |->
              IF IndexOf(LowerLetters, s[i]) # 0
              THEN UpperLetters[IndexOf(LowerLetters, s[i])] ELSE s[i]]
  IN  IF u = <<"N","A","N">> THEN ParseOk(NaN)
      ELSE IF u = <<"I","N","F">> \/ u = <<"I","N","F","I","N","I","T","Y">>
      THEN ParseOk(Inf(neg))
      ELSE ParseErr

\* <f64 as FromStr>::from_str: an optional sign, then digits with an optional
\* point (a digit on at least one side of it) and an optional exponent (e or
\* E, an optional sign, at least one digit), or inf, infinity or nan; all of
\* the string must be used.  The value is the nearest f64.
F64FromStr(s) ==
  LET signed == s # <<>> /\ s[1] \in {"+", "-"}
      neg    == s # <<>> /\ s[1] = "-"
      r      == IF signed THEN Tail(s) ELSE s
      i1     == SkipDigits(r, 1)
      point  == i1 <= Len(r) /\ r[i1] = "."
      i2     == IF point THEN SkipDigits(r, i1 + 1) ELSE i1
      nfrac  == IF point THEN i2 - (i1 + 1) ELSE 0
      nint   == i1 - 1
      hasExp == i2 <= Len(r) /\ r[i2] \in {"e", "E"}
      eSign  == hasExp /\ i2 + 1 <= Len(r) /\ r[i2 + 1] \in {"+", "-"}
      eNeg   == eSign /\ r[i2 + 1] = "-"
      j      == IF eSign THEN i2 + 2 ELSE i2 + 1
      i3     == IF hasExp THEN SkipDigits(r, j) ELSE i2
      e      == IF hasExp THEN DigitsSmall(r, j, i3, 0) ELSE 0
      digits == DigitsBig(SubSeq(r, 1, i1 - 1) \o SubSeq(r, i1 + 1, i2 - 1))
  IN  IF r = <<>> THEN ParseErr
      ELSE IF nint + nfrac = 0 THEN ParseInfNan(neg, r)
      ELSE IF hasExp /\ i3 = j THEN ParseErr
      ELSE IF i3 # Len(r) + 1 THEN ParseErr
      ELSE ParseOk(DecToF64(neg, digits, nint + nfrac,
                            (IF eNeg THEN -e ELSE e) - nfrac))

(***************************************************************************)
(* Scale, Temperature and Temperature::convert                             *)
(***************************************************************************)
Scale == {"Celsius", "Fahrenheit", "Kelvin"}

\* <Scale as Display>::fmt
ScaleCode(scale) ==
  CASE scale = "Celsius" -> "C"
    [] scale = "Fahrenheit" -> "F"
    [] scale = "Kelvin" -> "K"

\* Temperature::K, the f64 literal 273.15
K == F64FromStr(<<"2", "7", "3", ".", "1", "5">>).value

\* f_c without the offset of 32: what the round trip is checked against
f_c_no_offset(f) == FDivSmall(FMulSmall(f, 5), 9)

f_c(f) == FDivSmall(FMulSmall(FSub(f, FInt(32)), 5), 9)

\* c_f with the ratio inverted: what the formulas are checked against
c_f_inverted(c) == FAdd(FDivSmall(FMulSmall(c, 5), 9), FInt(32))

c_f(c) == FAdd(FDivSmall(FMulSmall(c, 9), 5), FInt(32))

c_k(c, k) == FAdd(c, k)

\* The arm of convert's match that a Temperature takes
ConvertArm(t) ==
  CASE t.scale = "Celsius" /\ t.convert_to = "Kelvin" -> "CK"
    [] t.scale = "Celsius" /\ t.convert_to = "Fahrenheit" -> "CF"
    [] t.scale = "Fahrenheit" /\ t.convert_to = "Celsius" -> "FC"
    [] t.scale = "Fahrenheit" /\ t.convert_to = "Kelvin" -> "FK"
    [] t.scale = "Kelvin" /\ t.convert_to = "Celsius" -> "KC"
    [] t.scale = "Kelvin" /\ t.convert_to = "Fahrenheit" -> "KF"
    [] OTHER -> "_"

convert(t) ==
  LET arm == ConvertArm(t)
  IN  CASE arm = "CK" -> c_k(t.value, K)
        [] arm = "CF" -> c_f(t.value)
        [] arm = "FC" -> f_c(t.value)
        [] arm = "FK" -> c_k(f_c(t.value), K)
        [] arm = "KC" -> c_k(t.value, FNeg(K))
        [] arm = "KF" -> c_f(c_k(t.value, FNeg(K)))
        [] OTHER -> t.value

\* <Temperature as Display>::fmt: the line's four fields, in order.  The
\* text of an f64 is not modelled; the line keeps the value itself.
TemperatureFmt(t) ==
  [line |-> "Temperature", value |-> t.value, scale |-> ScaleCode(t.scale),
   converted |-> convert(t), convert_to |-> ScaleCode(t.convert_to)]

(***************************************************************************)
(* ParseTemperatureError and Temperature::from_str                         *)
(***************************************************************************)
TemperatureErrorKind == {"NotNumeric", "ScaleUnknown", "Inconvertible"}

\* ParseTemperatureError::__description
Description(kind) ==
  CASE kind = "NotNumeric" -> "not a numeric value"
    [] kind = "ScaleUnknown" -> "scale unknown"
    [] kind = "Inconvertible" -> "string is empty"

\* <ParseTemperatureError as Display>::fmt: the description in Debug form,
\* that is, inside double quotes
ErrorFmt(kind) == "\"" \o Description(kind) \o "\""

\* The Temperature inside an Ok
Temperature(r) == [value |-> r.value, scale |-> r.scale, convert_to |-> r.convert_to]

Ok(value, scale, convert_to) ==
  [tag |-> "Ok", value |-> value, scale |-> scale, convert_to |-> convert_to]
Err(kind) == [tag |-> "Err", kind |-> kind]
Panic == [tag |-> "Panic"]

\* A match that lets the same-scale pair CC through: what the distinctness of
\* the two scales is checked against
MatchScalesSame(scales) ==
  CASE scales = <<"C", "C">> -> <<"Celsius", "Celsius">>
    [] scales = <<"C", "F">> -> <<"Celsius", "Fahrenheit">>
    [] scales = <<"C", "K">> -> <<"Celsius", "Kelvin">>
    [] scales = <<"F", "C">> -> <<"Fahrenheit", "Celsius">>
    [] scales = <<"F", "K">> -> <<"Fahrenheit", "Kelvin">>
    [] scales = <<"K", "C">> -> <<"Kelvin", "Celsius">>
    [] scales = <<"K", "F">> -> <<"Kelvin", "Fahrenheit">>
    [] OTHER -> <<>>

\* The match on the two-letter suffix
MatchScales(scales) ==
  CASE scales = <<"C", "F">> -> <<"Celsius", "Fahrenheit">>
    [] scales = <<"C", "K">> -> <<"Celsius", "Kelvin">>
    [] scales = <<"F", "C">> -> <<"Fahrenheit", "Celsius">>
    [] scales = <<"F", "K">> -> <<"Fahrenheit", "Kelvin">>
    [] scales = <<"K", "C">> -> <<"Kelvin", "Celsius">>
    [] scales = <<"K", "F">> -> <<"Kelvin", "Fahrenheit">>
    [] OTHER -> <<>>

\* from_str parsing the prefix before it matches the suffix: what the order
\* of the two checks is checked against
from_str_prefix_first(temp0) ==
  LET temp         == Trim(temp0)
      scales_index == StrLen(temp) - 2
      upper        == ToUppercase(temp)
      parts        == SplitAt(upper, scales_index)
      scales       == MatchScales(parts.right)
      value        == F64FromStr(parts.left)
  IN  IF temp = <<>> THEN Err("Inconvertible")
      ELSE IF StrLen(temp) = 1
      THEN (IF F64FromStr(temp).ok THEN Err("ScaleUnknown") ELSE Err("NotNumeric"))
      ELSE IF parts.panic THEN Panic
      ELSE IF ~value.ok THEN Err("NotNumeric")
      ELSE IF scales = <<>> THEN Err("ScaleUnknown")
      ELSE Ok(value.value, scales[1], scales[2])

\* scales_index is taken from the trimmed string before it is uppercased,
\* and used to split the uppercased string.
from_str(temp0) ==
  LET temp         == Trim(temp0)
      scales_index == StrLen(temp) - 2
      upper        == ToUppercase(temp)
      parts        == SplitAt(upper, scales_index)
      scales       == MatchScales(parts.right)
      value        == F64FromStr(parts.left)
  IN  IF temp = <<>> THEN Err("Inconvertible")
      ELSE IF StrLen(temp) = 1
      THEN (IF F64FromStr(temp).ok THEN Err("ScaleUnknown") ELSE Err("NotNumeric"))
      ELSE IF parts.panic THEN Panic
      ELSE IF scales = <<>> THEN Err("ScaleUnknown")
      ELSE IF ~value.ok THEN Err("NotNumeric")
      ELSE Ok(value.value, scales[1], scales[2])

(***************************************************************************)
(* State                                                                   *)
(***************************************************************************)
VARIABLES
  args,              \* main: the command line after the program's name
  pc,                \* main: where it is
  next_arg,          \* main: the index of the next element of app_args
  temperature_list,  \* main: the Temperatures parsed so far
  stdout,            \* the lines printed to the standard output
  stderr,            \* the lines printed to the standard error
  status,            \* the exit status, -1 while the process runs
  temp,              \* from_str alone: its argument
  result,            \* from_str alone: what it returned, None before
  token,             \* convert alone: the token the Temperature comes from
  step,              \* convert alone: where the run is
  temperature,       \* convert alone: the Temperature parsed from token
  converted,         \* convert alone: temperature.convert()
  back               \* convert alone: converted, converted back

mainVars == <<args, pc, next_arg, temperature_list, stdout, stderr, status>>
parseVars == <<temp, result>>
convertVars == <<token, step, temperature, converted, back>>
vars == <<mainVars, parseVars, convertVars>>

MainIdle ==
  /\ args = <<>> /\ pc = "idle" /\ next_arg = 1 /\ temperature_list = <<>>
  /\ stdout = <<>> /\ stderr = <<>> /\ status = -1
None == [tag |-> "None"]
ParseIdle == temp = <<>> /\ result = None
ConvertIdle ==
  /\ token = <<>> /\ step = "idle" /\ temperature = None
  /\ converted = None /\ back = None

\* All strings of at most n characters of alphabet
Strings(alphabet, n) == UNION {[1..len -> alphabet] : len \in 0..n}

(***************************************************************************)
(* main                                                                    *)
(***************************************************************************)
MaxArgs == 3

\* The tokens of the usage message and other command-line arguments
ArgPool ==
  { <<"3","2","F","C">>, <<"4","5","F","K">>, <<"3","6","C","K">>,
    <<"3","2","C","F">>, <<" ">>, <<"5">>, <<"X">>, <<"1","0","C","C">>,
    <<"a","b","F","C">>, <<"3","2","f","c">>, <<"U+20AC">> }

Init ==
  /\ args \in Strings(ArgPool, MaxArgs)
  /\ pc = "start" /\ next_arg = 1 /\ temperature_list = <<>>
  /\ stdout = <<>> /\ stderr = <<>> /\ status = -1
  /\ ParseIdle /\ ConvertIdle

\* The line of println!("ParseError: {}, {}", elem, err)
ParseErrorLine(elem, kind) ==
  [line |-> "ParseError", elem |-> elem, err |-> ErrorFmt(kind)]

\* An insertion at the front: what the order of the conversion lines is
\* checked against
PushFront(list, t) == <<t>> \o list

\* Vec::push
Push(list, t) == Append(list, t)

\* app_args.len() <= 0: the usage message, and exit(1)
Usage ==
  /\ pc = "start" /\ Len(args) <= 0
  /\ stderr' = Append(stderr, "Usage exemple: <exec name> 32FC 45FK 36CK 32CF")
  /\ status' = 1
  /\ pc' = "exited"
  /\ UNCHANGED <<args, next_arg, temperature_list, stdout, parseVars, convertVars>>

\* let mut temperature_list = Vec::new(), and into the first loop
Begin ==
  /\ pc = "start" /\ Len(args) > 0
  /\ temperature_list' = <<>>
  /\ pc' = "parse"
  /\ UNCHANGED <<args, next_arg, stdout, stderr, status, parseVars, convertVars>>

\* One turn of the first loop: an Ok is pushed, an Err is printed at once, a
\* panic in from_str ends the process with status 101.
ParseArgResult(elem, r) ==
  \/ /\ r.tag = "Ok"
     /\ temperature_list' =
          Push(temperature_list, Temperature(r))
     /\ next_arg' = next_arg + 1
     /\ UNCHANGED <<pc, stdout, stderr, status>>
  \/ /\ r.tag = "Err"
     /\ stdout' = Append(stdout, ParseErrorLine(elem, r.kind))
     /\ next_arg' = next_arg + 1
     /\ UNCHANGED <<pc, temperature_list, stderr, status>>
  \/ /\ r.tag = "Panic"
     /\ stderr' = Append(stderr, "thread 'main' panicked")
     /\ status' = 101
     /\ pc' = "exited"
     /\ UNCHANGED <<next_arg, temperature_list, stdout>>

ParseArg ==
  /\ pc = "parse" /\ next_arg <= Len(args)
  /\ ParseArgResult(args[next_arg], from_str(args[next_arg]))
  /\ UNCHANGED <<args, parseVars, convertVars>>

\* The first loop is over: into the second, which consumes temperature_list
ParseDone ==
  /\ pc = "parse" /\ next_arg > Len(args)
  /\ pc' = "print"
  /\ UNCHANGED <<args, next_arg, temperature_list, stdout, stderr, status,
                 parseVars, convertVars>>

\* One turn of the second loop: println!("{}", temp)
PrintTemp ==
  /\ pc = "print" /\ temperature_list # <<>>
  /\ stdout' = Append(stdout, TemperatureFmt(Head(temperature_list)))
  /\ temperature_list' = Tail(temperature_list)
  /\ UNCHANGED <<args, pc, next_arg, stderr, status, parseVars, convertVars>>

\* main returns
Exit ==
  /\ pc = "print" /\ temperature_list = <<>>
  /\ status' = 0
  /\ pc' = "exited"
  /\ UNCHANGED <<args, next_arg, temperature_list, stdout, stderr, parseVars, convertVars>>

Next == Usage \/ Begin \/ ParseArg \/ ParseDone \/ PrintTemp \/ Exit

Spec == Init /\ [][Next]_vars

(***************************************************************************)
(* Temperature::from_str alone, on every short string                      *)
(***************************************************************************)
MaxLen == 4

Alphabet == {" ", "1", ".", "-", "e", "c", "F", "k",
             "U+00E9", "U+0131", "U+212A", "U+20AC"}

InitParse ==
  /\ temp \in Strings(Alphabet, MaxLen)
  /\ result = None
  /\ MainIdle /\ ConvertIdle

CallFromStr ==
  /\ result = None
  /\ result' = from_str(temp)
  /\ UNCHANGED <<temp, mainVars, convertVars>>

NextParse == CallFromStr

SpecParse == InitParse /\ [][NextParse]_vars

(***************************************************************************)
(* Temperature::convert alone, there and back                              *)
(***************************************************************************)
MaxMant == 45
MaxExp10 == 7
MaxFrac == 2

\* n in decimal
RECURSIVE Decimal(_)
Decimal(n) ==
  IF n < 10 THEN <<Digits[n + 1]>> ELSE Append(Decimal(n \div 10), Digits[(n % 10) + 1])

ScalePairs == {<<"C","F">>, <<"C","K">>, <<"F","C">>, <<"F","K">>, <<"K","C">>, <<"K","F">>}

\* Tokens such as 36CK, -4e-2FC, 2e7KF, infCF and nanKC
ConvertTokens ==
  { sign \o Decimal(mant) \o exp \o pair :
      sign \in {<<>>, <<"-">>}, mant \in 0..MaxMant,
      exp \in {<<>>} \cup {<<"e">> \o Decimal(n) : n \in 1..MaxExp10}
                     \cup {<<"e", "-">> \o Decimal(n) : n \in 1..MaxFrac},
      pair \in ScalePairs }
  \cup { word \o pair : word \in {<<"i","n","f">>, <<"-","i","n","f">>, <<"n","a","n">>},
                        pair \in ScalePairs }

InitConvert ==
  /\ token \in ConvertTokens
  /\ step = "parse" /\ temperature = None /\ converted = None /\ back = None
  /\ MainIdle /\ ParseIdle

Parse ==
  /\ step = "parse"
  /\ from_str(token).tag = "Ok"
  /\ temperature' = Temperature(from_str(token))
  /\ step' = "convert"
  /\ UNCHANGED <<token, converted, back, mainVars, parseVars>>

Convert ==
  /\ step = "convert"
  /\ converted' = convert(temperature)
  /\ step' = "back"
  /\ UNCHANGED <<token, temperature, back, mainVars, parseVars>>

\* The converted value, taken as a Temperature of the target scale, converted
\* to the source scale
ConvertBack ==
  /\ step = "back"
  /\ back' = convert([value |-> converted, scale |-> temperature.convert_to,
                      convert_to |-> temperature.scale])
  /\ step' = "done"
  /\ UNCHANGED <<token, temperature, converted, mainVars, parseVars>>

NextConvert == Parse \/ Convert \/ ConvertBack

SpecConvert == InitConvert /\ [][NextConvert]_vars

(***************************************************************************)
(* Properties of Temperature::from_str, under SpecParse                    *)
(***************************************************************************)
\* The trimmed, uppercased token, its last two characters and what is
\* before them
Upper(t) == ToUppercase(Trim(t))
LastTwo(u) == SubSeq(u, Len(u) - 1, Len(u))
BeforeLastTwo(u) == SubSeq(u, 1, Len(u) - 2)

\* Whether the token is a float followed by one of the six pairs
WellFormed(t) ==
  /\ Len(Upper(t)) >= 2
  /\ MatchScales(LastTwo(Upper(t))) # <<>>
  /\ F64FromStr(BeforeLastTwo(Upper(t))).ok

\* C1: from_str succeeds exactly on the well-formed tokens, with the parsed
\* value, the source scale of the first suffix letter and the target scale of
\* the second; on every other token it returns an error.
C1_FromStrContract ==
  result # None =>
    IF WellFormed(temp)
    THEN result = Ok(F64FromStr(BeforeLastTwo(Upper(temp))).value,
                     MatchScales(LastTwo(Upper(temp)))[1],
                     MatchScales(LastTwo(Upper(temp)))[2])
    ELSE result.tag = "Err"

\* char::to_lowercase
CharToLower(c) ==
  CASE IndexOf(UpperLetters, c) # 0 -> LowerLetters[IndexOf(UpperLetters, c)]
    [] c = "U+00C9" -> "U+00E9"
    [] c = "U+212A" -> "k"
    [] OTHER -> c

\* The strings that differ from t only in the case of letters
CaseVariants(t) ==
  {v \in [1..Len(t) -> UNION {{t[i], CharToUpper(t[i]), CharToLower(t[i])} : i \in 1..Len(t)}] :
     \A i \in 1..Len(t) : v[i] \in {t[i], CharToUpper(t[i]), CharToLower(t[i])}}

\* C6: from_str gives the same outcome for a token and for the token with
\* its letters in any other case.
C6_CaseInsensitive ==
  result # None => \A v \in CaseVariants(temp) : from_str(v) = result

\* C7 as claimed: every token of trimmed length 2 is rejected with
\* NotNumeric (stated for two one-byte characters, where the length in
\* characters and in bytes agree).
C7_LengthTwoNotNumeric ==
  (result # None /\ Len(Trim(temp)) = 2 /\ StrLen(Trim(temp)) = 2)
    => result = Err("NotNumeric")

\* C7 as it holds: every token of trimmed length 2 (bytes) is rejected, with
\* NotNumeric when it is, uppercased, one of the six pairs (the numeric prefix
\* is then empty), and with ScaleUnknown otherwise.
C7_LengthTwoRejected ==
  (result # None /\ StrLen(Trim(temp)) = 2)
    => result = Err(IF MatchScales(Upper(temp)) # <<>>
                    THEN "NotNumeric" ELSE "ScaleUnknown")

C7_Witness ==
  /\ StrLen(Trim(temp)) = 2
  /\ MatchScales(Upper(temp)) # <<>>
  /\ result = Err("NotNumeric")

\* C8: a token of two characters or more whose last two characters,
\* uppercased, are none of the six pairs gets ScaleUnknown whatever is before
\* them; NotNumeric comes on this path only with one of the six pairs and a
\* prefix that is no float.
C8_SuffixBeforePrefix ==
  (result # None /\ Len(Trim(temp)) >= 2) =>
    /\ MatchScales(LastTwo(Upper(temp))) = <<>> => result = Err("ScaleUnknown")
    /\ result = Err("NotNumeric") =>
         /\ MatchScales(LastTwo(Upper(temp))) # <<>>
         /\ ~F64FromStr(BeforeLastTwo(Upper(temp))).ok

\* C9: a token empty after trimming gets Inconvertible; a token of one
\* character after trimming gets ScaleUnknown if the character is a number
\* and NotNumeric if not, whatever the character's encoded length.
C9_ShortTokens ==
  result # None =>
    /\ Trim(temp) = <<>> => result = Err("Inconvertible")
    /\ Len(Trim(temp)) = 1 =>
         result = Err(IF F64FromStr(Trim(temp)).ok
                      THEN "ScaleUnknown" ELSE "NotNumeric")

(***************************************************************************)
(* Properties of main, under Spec                                          *)
(***************************************************************************)
\* C2: with one argument or more, every argument gives exactly one line of
\* output and the process ends with status 0, whatever fails to parse.
C2_EveryTokenOneLine ==
  (pc = "exited" /\ Len(args) >= 1) => (status = 0 /\ Len(stdout) = Len(args))

\* The lines the first n arguments give: the ParseError lines, and the
\* conversion lines, each in the order of the arguments
RECURSIVE ErrorLines(_)
ErrorLines(n) ==
  IF n = 0 THEN <<>>
  ELSE IF from_str(args[n]).tag = "Err"
  THEN Append(ErrorLines(n - 1), ParseErrorLine(args[n], from_str(args[n]).kind))
  ELSE ErrorLines(n - 1)

RECURSIVE ConversionLines(_)
ConversionLines(n) ==
  IF n = 0 THEN <<>>
  ELSE IF from_str(args[n]).tag = "Ok"
  THEN Append(ConversionLines(n - 1), TemperatureFmt(Temperature(from_str(args[n]))))
  ELSE ConversionLines(n - 1)

\* C3: while the arguments are parsed the output is the ParseError lines of
\* the arguments seen, in their order; conversion lines come only when all
\* arguments are parsed, after every ParseError line, in the order of their
\* arguments.
C3_OutputOrder ==
  IF pc = "print" \/ status = 0
  THEN /\ next_arg = Len(args) + 1
       /\ Len(temperature_list) <= Len(ConversionLines(Len(args)))
       /\ stdout = ErrorLines(Len(args))
                     \o SubSeq(ConversionLines(Len(args)), 1,
                               Len(ConversionLines(Len(args))) - Len(temperature_list))
  ELSE stdout = ErrorLines(next_arg - 1)

\* A conversion line of the first argument after the ParseError line of the
\* second, and a second conversion line after it
C3_Witness ==
  /\ status = 0
  /\ Len(stdout) = 3
  /\ stdout[1].line = "ParseError" /\ stdout[1].elem = args[2]
  /\ stdout[2].line = "Temperature" /\ stdout[3].line = "Temperature"
  /\ stdout[2] # stdout[3]

\* C10: every Temperature has a source scale different from its target
\* scale, and convert's fallback arm is taken for none.
C10_ScalesDiffer ==
  /\ \A i \in 1..Len(temperature_list) :
       /\ temperature_list[i].scale # temperature_list[i].convert_to
       /\ ConvertArm(temperature_list[i]) # "_"
  /\ \A i \in 1..Len(stdout) :
       stdout[i].line = "Temperature" => stdout[i].scale # stdout[i].convert_to

C10_Witness ==
  /\ Len(temperature_list) >= 1
  /\ \E i \in 1..Len(stdout) : stdout[i].line = "Temperature"

(***************************************************************************)
(* Properties of Temperature::convert, under SpecConvert                   *)
(***************************************************************************)
\* K_OFFSET = 273.15
K_OFFSET == F64FromStr(<<"2", "7", "3", ".", "1", "5">>).value

\* The formulas of the six pairs, each operation left to right in f64
Formula(value, arm) ==
  CASE arm = "CF" -> FAdd(FDivSmall(FMulSmall(value, 9), 5), FInt(32))
    [] arm = "CK" -> FAdd(value, K_OFFSET)
    [] arm = "FC" -> FDivSmall(FMulSmall(FSub(value, FInt(32)), 5), 9)
    [] arm = "FK" -> FAdd(FDivSmall(FMulSmall(FSub(value, FInt(32)), 5), 9), K_OFFSET)
    [] arm = "KC" -> FSub(value, K_OFFSET)
    [] arm = "KF" -> FAdd(FDivSmall(FMulSmall(FSub(value, K_OFFSET), 9), 5), FInt(32))

\* C4: convert returns a value for every Temperature, the value of the
\* pair's formula; 32FC gives 0, 36CK gives 309.15 and 32CF gives 89.6.
C4_ConvertFormulas ==
  step \in {"back", "done"} =>
    /\ converted.k \in {"num", "inf", "nan"}
    /\ converted = Formula(temperature.value,
                           ScaleCode(temperature.scale) \o ScaleCode(temperature.convert_to))
    /\ token = <<"3","2","F","C">> => converted = Zero
    /\ token = <<"3","6","C","K">>
         => converted = F64FromStr(<<"3","0","9",".","1","5">>).value
    /\ token = <<"3","2","C","F">> => converted = F64FromStr(<<"8","9",".","6">>).value

C4_Witness ==
  /\ step = "done"
  /\ token = <<"3","6","C","K">>
  /\ converted = F64FromStr(<<"3","0","9",".","1","5">>).value

\* 1e-9
Tolerance == F64FromStr(<<"1", "e", "-", "9">>).value

\* 100000
Range == FInt(10^5)

\* |a - b| <= 1e-9
Within(a, b) == FLessEq(FAbs(FSub(a, b)), Tolerance)

\* C5 as claimed: converting a finite value from a scale to another and back
\* gives the value within 1e-9, for every finite value.
C5_RoundTrip ==
  (step = "done" /\ temperature.value.k = "num")
    => Within(back, temperature.value)

\* C5 as it holds: converting a finite value of magnitude at most 100000
\* from a scale to another and back gives the value within 1e-9.
C5_RoundTripInRange ==
  (step = "done" /\ temperature.value.k = "num"
     /\ FLessEq(FAbs(temperature.value), Range))
    => Within(back, temperature.value)

\* A round trip that does not give the value back exactly, yet within 1e-9
C5_Witness ==
  /\ step = "done"
  /\ temperature.value.k = "num"
  /\ FLessEq(FAbs(temperature.value), Range)
  /\ back # temperature.value
  /\ Within(back, temperature.value)

====
